---- MODULE Spec2Model ----
(***************************************************************************)
(* A model of the uarc generic assembler (src/src/parse.rs): the parser's  *)
(* emission state, the token dispatcher (tag creation, rule firing), the   *)
(* linker and the serializer.                                              *)
(*                                                                         *)
(* A 64-bit word is its 8-byte big-endian encoding, byte 1 the most        *)
(* significant, so that 64-bit wraparound, shifts and the serializer's     *)
(* byte slices are computed at full width.  Characters are code points.    *)
(* Indices taken from the configuration and stored in replacements are     *)
(* 0-based, as in the source; 1 is added where a TLA+ sequence is indexed. *)
(***************************************************************************)
EXTENDS Integers, Sequences, FiniteSets, TLC

VARIABLES
    config,            \* index of the Config this Parser was built with
    overflow_checks,   \* whether the build panics on integer overflow
    segments,          \* Parser.segments
    tags,              \* Parser.tags
    plus_tags,         \* Parser.plus_tags
    minus_tags,        \* Parser.minus_tags
    replacements,      \* Parser.replacements
    line,              \* number of input lines handed to parse_segment
    input,             \* the tokens handed to parse_segment so far, one per line
    fired,             \* what that call did: "none", "empty", "tag", "rule", "link"
    rule_index,        \* 0-based index of the rule that fired, or -1
    status,            \* "parsing", "linked" or "fatal"
    err,               \* the kind of the panic that ended the run, or "none"
    out_format,        \* serializer: the format of the last output call
    out_width,         \* serializer: config.segment_widths[segment]
    out_words,         \* serializer: self.segments[segment]
    out_bytes          \* serializer: the bytes written to the sink

vars == <<config, overflow_checks, segments, tags, plus_tags, minus_tags,
          replacements, line, input, fired, rule_index, status, err,
          out_format, out_width, out_words, out_bytes>>

parser_vars == <<config, overflow_checks, segments, tags, plus_tags, minus_tags,
                 replacements, line, input, fired, rule_index, status, err>>

output_vars == <<out_format, out_width, out_words, out_bytes>>

(***************************************************************************)
(* Bounds of the model.                                                    *)
(***************************************************************************)
\* The number of input lines (one token each) fed to parse before link.
MaxTokens == 4

\* The number of words of the segment handed to the serializer.
MaxOutWords == 2

(***************************************************************************)
(* u64 arithmetic on 8-byte big-endian words.                              *)
(***************************************************************************)
Pow2(n) == CASE n = 0 -> 1 [] n = 1 -> 2 [] n = 2 -> 4 [] n = 3 -> 8
             [] n = 4 -> 16 [] n = 5 -> 32 [] n = 6 -> 64 [] n = 7 -> 128
             [] n = 8 -> 256

\* n as u64, for 0 <= n < 2^31
U64(n) ==
    <<0, 0, 0, 0,
      (n \div 16777216) % 256, (n \div 65536) % 256, (n \div 256) % 256, n % 256>>

\* the byte-wise sums of a + b with the carries added in, low byte last
CarrySums(a, b) ==
    LET s8 == a[8] + b[8]
        s7 == a[7] + b[7] + (s8 \div 256)
        s6 == a[6] + b[6] + (s7 \div 256)
        s5 == a[5] + b[5] + (s6 \div 256)
        s4 == a[4] + b[4] + (s5 \div 256)
        s3 == a[3] + b[3] + (s4 \div 256)
        s2 == a[2] + b[2] + (s3 \div 256)
        s1 == a[1] + b[1] + (s2 \div 256)
    IN <<s1, s2, s3, s4, s5, s6, s7, s8>>

\* a + b modulo 2^64
WrappingAdd(a, b) ==
    LET s == CarrySums(a, b)
    IN <<s[1] % 256, s[2] % 256, s[3] % 256, s[4] % 256,
         s[5] % 256, s[6] % 256, s[7] % 256, s[8] % 256>>

\* whether a + b exceeds 2^64 - 1
AddOverflows(a, b) == CarrySums(a, b)[1] >= 256

\* !a
Not64(a) ==
    <<255 - a[1], 255 - a[2], 255 - a[3], 255 - a[4],
      255 - a[5], 255 - a[6], 255 - a[7], 255 - a[8]>>

ByteAt(a, i) == IF i >= 1 /\ i <= 8 THEN a[i] ELSE 0

\* a << s, 0 <= s <= 63
Shl64(a, s) ==
    LET q == s \div 8
        r == s % 8
        byte(i) == ((ByteAt(a, i + q) * Pow2(r)) % 256)
                   + (ByteAt(a, i + q + 1) \div Pow2(8 - r))
    IN <<byte(1), byte(2), byte(3), byte(4), byte(5), byte(6), byte(7), byte(8)>>

\* a >> s (logical), 0 <= s <= 63
Shr64(a, s) ==
    LET q == s \div 8
        r == s % 8
        byte(i) == (ByteAt(a, i - q) \div Pow2(r))
                   + ((ByteAt(a, i - q - 1) * Pow2(8 - r)) % 256)
    IN <<byte(1), byte(2), byte(3), byte(4), byte(5), byte(6), byte(7), byte(8)>>

shift_left_or_right(a, shift) ==
    IF shift < 0 THEN Shr64(a, -shift) ELSE Shl64(a, shift)

\* (n as u64) for an isize n with |n| < 2^31: two's complement
IsizeAsU64(n) ==
    IF n >= 0 THEN U64(n) ELSE WrappingAdd(Not64(U64(-n)), U64(1))

\* the value of a word whose four high bytes are zero and that is below 2^31
LowValue(a) == a[5] * 16777216 + a[6] * 65536 + a[7] * 256 + a[8]

\* (a as isize) for a word within 2^31 of zero on either side
U64AsIsize(a) ==
    IF a[1] < 128 THEN LowValue(a)
    ELSE -LowValue(WrappingAdd(Not64(a), U64(1)))

(***************************************************************************)
(* Regex::captures (the regex crate), for the patterns the configurations  *)
(* use: a pattern is an optional ^, a sequence of items and an optional $. *)
(* An item is a literal character ("lit"), an optional literal ("opt") or  *)
(* a capture group ("grp") that is an alternation of character-class runs, *)
(* (c1+|c2+|...).  As in the crate the search is unanchored unless the     *)
(* pattern says otherwise, the leftmost match wins, alternatives are tried *)
(* in order and a run is greedy with backtracking.                         *)
(***************************************************************************)
Lit(c) == [k |-> "lit", c |-> c]
Opt(c) == [k |-> "opt", c |-> c]
Grp(alts) == [k |-> "grp", alts |-> alts]

NoMatch == [ok |-> FALSE, caps |-> <<>>, lo |-> 0, hi |-> 0]

RECURSIVE RunLen(_, _, _)
\* the length of the longest run of characters of cls starting at tok[pos]
RunLen(tok, pos, cls) ==
    IF pos <= Len(tok) /\ tok[pos] \in cls
    THEN 1 + RunLen(tok, pos + 1, cls)
    ELSE 0

RECURSIVE MatchItems(_, _, _, _, _)
RECURSIVE TryGroup(_, _, _, _, _, _, _)

\* items k.. of pat matched against tok from pos on; hi is the end (exclusive)
MatchItems(pat, tok, pos, k, caps) ==
    IF k > Len(pat.items)
    THEN IF pat.anchE /\ pos /= Len(tok) + 1
         THEN NoMatch
         ELSE [ok |-> TRUE, caps |-> caps, lo |-> 0, hi |-> pos]
    ELSE LET it == pat.items[k] IN
         CASE it.k = "lit" ->
                IF pos <= Len(tok) /\ tok[pos] = it.c
                THEN MatchItems(pat, tok, pos + 1, k + 1, caps)
                ELSE NoMatch
           [] it.k = "opt" ->
                LET with == IF pos <= Len(tok) /\ tok[pos] = it.c
                            THEN MatchItems(pat, tok, pos + 1, k + 1, caps)
                            ELSE NoMatch
                IN IF with.ok THEN with
                   ELSE MatchItems(pat, tok, pos, k + 1, caps)
           [] it.k = "grp" ->
                TryGroup(pat, tok, pos, k, caps, 1,
                         RunLen(tok, pos, it.alts[1]))

\* group k of pat: alternative a with a run of n characters, then shorter
\* runs, then the next alternative
TryGroup(pat, tok, pos, k, caps, a, n) ==
    LET alts == pat.items[k].alts IN
    IF n = 0
    THEN IF a = Len(alts) THEN NoMatch
         ELSE TryGroup(pat, tok, pos, k, caps, a + 1,
                       RunLen(tok, pos, alts[a + 1]))
    ELSE LET r == MatchItems(pat, tok, pos + n, k + 1,
                             Append(caps, SubSeq(tok, pos, pos + n - 1)))
         IN IF r.ok THEN r ELSE TryGroup(pat, tok, pos, k, caps, a, n - 1)

RECURSIVE SearchFrom(_, _, _)
SearchFrom(pat, tok, start) ==
    IF start > Len(tok) + 1 THEN NoMatch
    ELSE LET r == MatchItems(pat, tok, start, 1, <<>>) IN
         IF r.ok THEN [r EXCEPT !.lo = start]
         ELSE IF pat.anchS THEN NoMatch
         ELSE SearchFrom(pat, tok, start + 1)

\* regex.captures(tok): ok, the capture groups 1..K, and the span [lo, hi)
\* of the match in tok
Captures(pat, tok) == SearchFrom(pat, tok, 1)

(***************************************************************************)
(* i64::from_str_radix, for strings short enough not to overflow.          *)
(***************************************************************************)
DigitVal(c) ==
    CASE c >= 48 /\ c <= 57 -> c - 48
      [] c >= 97 /\ c <= 122 -> c - 87
      [] c >= 65 /\ c <= 90 -> c - 55
      [] OTHER -> 99

RECURSIVE DigitsValue(_, _, _)
\* the value of the digit string s[1..n] in the given base
DigitsValue(s, n, base) ==
    IF n = 0 THEN 0
    ELSE DigitsValue(s, n - 1, base) * base + DigitVal(s[n])

from_str_radix(s, base) ==
    IF Len(s) = 0 THEN [ok |-> FALSE, val |-> 0]
    ELSE LET neg == s[1] = 45
             digits == IF s[1] = 43 \/ s[1] = 45 THEN Tail(s) ELSE s
         IN IF Len(digits) = 0
               \/ \E i \in 1..Len(digits) : DigitVal(digits[i]) >= base
            THEN [ok |-> FALSE, val |-> 0]
            ELSE [ok |-> TRUE,
                  val |-> IF neg THEN -DigitsValue(digits, Len(digits), base)
                          ELSE DigitsValue(digits, Len(digits), base)]

(***************************************************************************)
(* Configurations (src/src/config.rs), already validated by                *)
(* consistency_check.  Character classes and literals are code points:     *)
(* ! 33, # 35, $ 36, % 37, apostrophe 39, * 42, + 43, comma 44, - 45,      *)
(* 0..9 48..57, : 58, = 61, ? 63, @ 64, a..z 97..122.                      *)
(***************************************************************************)
Digits == 48..57
Lower == 97..122
TagName == <<Lower, {43}, {45}>>          \* ([a-z]+|\++|-+)

TagFeedback(from_segment, relative, shift, add_segment, add_index, offset) ==
    [from_segment |-> from_segment, relative |-> relative, shift |-> shift,
     add_segment |-> add_segment, add_index |-> add_index, offset |-> offset]

NumFeedback(negate, shift, segment, index, fill, fill_offset, align) ==
    [negate |-> negate, shift |-> shift, segment |-> segment, index |-> index,
     fill |-> fill, fill_offset |-> fill_offset, align |-> align]

CaptureTag(feedbacks) == [kind |-> "Tag", feedbacks |-> feedbacks]
CaptureStr(add_segment) == [kind |-> "Str", add_segment |-> add_segment]
CaptureNum(base, feedbacks) ==
    [kind |-> "Num", base |-> base, feedbacks |-> feedbacks]

Regex(anchS, items, anchE) == [anchS |-> anchS, items |-> items, anchE |-> anchE]

Rule(regex, segment_values, self_references, captures) ==
    [regex |-> regex, segment_values |-> segment_values,
     self_references |-> self_references, captures |-> captures]

\* One segment.  tag_create ^:?([a-z]+|\++|-+)$; rules ^([0-9]+)$ (a number,
\* added to the template [[0]]), ^@([a-z]+|\++|-+)$ (an absolute tag use on
\* [[0]]) and ^%([a-z]+|\++|-+)$ (the same, relative).
ConfigScenario ==
    [segment_widths |-> <<1>>,
     split_whitespace |-> TRUE,
     tag_create |-> Regex(TRUE, <<Opt(58), Grp(TagName)>>, TRUE),
     rules |-> <<
        Rule(Regex(TRUE, <<Grp(<<Digits>>)>>, TRUE),
             << <<U64(0)>> >>, <<>>,
             <<CaptureNum(10, <<NumFeedback(FALSE, 0, 0, 0, FALSE, -1, FALSE)>>)>>),
        Rule(Regex(TRUE, <<Lit(64), Grp(TagName)>>, TRUE),
             << <<U64(0)>> >>, <<>>,
             <<CaptureTag(<<TagFeedback(0, FALSE, 0, 0, 0, 0)>>)>>),
        Rule(Regex(TRUE, <<Lit(37), Grp(TagName)>>, TRUE),
             << <<U64(0)>> >>, <<>>,
             <<CaptureTag(<<TagFeedback(0, TRUE, 0, 0, 0, 0)>>)>>)
     >>]

\* Two segments, patterns without anchors.  tag_create :([a-z]+|\++|-+);
\* rules ^@([a-z]+|\++|-+)$ (two tag feedbacks, one relative across segments,
\* one shifted with an offset, on the template [[1],[1,2]]) and ([0-9-]+)
\* (a number with a self-reference, added plain to segment 0 and shifted and
\* negated to segment 1).
ConfigTags ==
    [segment_widths |-> <<1, 2>>,
     split_whitespace |-> TRUE,
     tag_create |-> Regex(FALSE, <<Lit(58), Grp(TagName)>>, FALSE),
     rules |-> <<
        Rule(Regex(TRUE, <<Lit(64), Grp(TagName)>>, TRUE),
             << <<U64(1)>>, <<U64(1), U64(2)>> >>, <<>>,
             <<CaptureTag(<<TagFeedback(1, TRUE, 0, 0, 0, 0),
                            TagFeedback(0, FALSE, 8, 1, 1, 2)>>)>>),
        Rule(Regex(FALSE, <<Grp(<<Digits \cup {45}>>)>>, FALSE),
             << <<U64(0)>>, <<U64(0)>> >>,
             <<TagFeedback(0, FALSE, 1, 1, 0, 0)>>,
             <<CaptureNum(10, <<NumFeedback(FALSE, 0, 0, 0, FALSE, -1, FALSE),
                                NumFeedback(TRUE, 4, 1, 0, FALSE, -1, FALSE)>>)>>)
     >>]

\* Two segments.  tag_create ^:([a-z]+|\++|-+)$; rules
\* ^'([a-z]+)=([0-9a-z]+)$ (a string pushed to segment 1, then a number),
\* ^\*([0-9]+),([0-9a-z]+)$ (a fill of the base 5 in segment 0, then a
\* number), ^!([0-9]+)$ (an aligning fill of segment 1) and
\* ^@([a-z]+|\++|-+)$ (a tag use on segment 0, positions from segment 1).
ConfigEmit ==
    [segment_widths |-> <<2, 1>>,
     split_whitespace |-> TRUE,
     tag_create |-> Regex(TRUE, <<Lit(58), Grp(TagName)>>, TRUE),
     rules |-> <<
        Rule(Regex(TRUE, <<Lit(39), Grp(<<Lower>>), Lit(61),
                           Grp(<<Digits \cup Lower>>)>>, TRUE),
             << <<U64(0)>>, <<>> >>, <<>>,
             <<CaptureStr(1),
               CaptureNum(10, <<NumFeedback(FALSE, 0, 0, 0, FALSE, -1, FALSE)>>)>>),
        Rule(Regex(TRUE, <<Lit(42), Grp(<<Digits>>), Lit(44),
                           Grp(<<Digits \cup Lower>>)>>, TRUE),
             << <<U64(5)>>, <<U64(9)>> >>, <<>>,
             <<CaptureNum(10, <<NumFeedback(FALSE, 0, 0, 0, TRUE, -1, FALSE)>>),
               CaptureNum(10, <<NumFeedback(FALSE, 0, 1, 0, FALSE, -1, FALSE)>>)>>),
        Rule(Regex(TRUE, <<Lit(33), Grp(<<Digits>>)>>, TRUE),
             << <<>>, <<U64(7)>> >>, <<>>,
             <<CaptureNum(10, <<NumFeedback(FALSE, 0, 1, 0, TRUE, 0, TRUE)>>)>>),
        Rule(Regex(TRUE, <<Lit(64), Grp(TagName)>>, TRUE),
             << <<U64(0)>>, <<>> >>, <<>>,
             <<CaptureTag(<<TagFeedback(1, FALSE, 0, 0, 0, 0)>>)>>)
     >>]

\* One segment.  tag_create ^:([a-z]+|\++|-+)$; rules ^@([a-z]+|\++|-+)$
\* (a tag use on the second word of the template [[1,0]]),
\* ^\$([a-z]+|\++|-+)=([a-z]+)$ (a tag use on [[0]], then a string pushed to
\* the same segment), ^#([a-z]+|\++|-+),([0-9]+)$ (a tag use on the second
\* word of [[0,5]], then a fill of that word in the same segment) and
\* ^\*([0-9]+)$ (a fill whose base is the first word of [[5,6]]).
ConfigMixed ==
    [segment_widths |-> <<1>>,
     split_whitespace |-> TRUE,
     tag_create |-> Regex(TRUE, <<Lit(58), Grp(TagName)>>, TRUE),
     rules |-> <<
        Rule(Regex(TRUE, <<Lit(64), Grp(TagName)>>, TRUE),
             << <<U64(1), U64(0)>> >>, <<>>,
             <<CaptureTag(<<TagFeedback(0, FALSE, 0, 0, 1, 0)>>)>>),
        Rule(Regex(TRUE, <<Lit(36), Grp(TagName), Lit(61), Grp(<<Lower>>)>>, TRUE),
             << <<U64(0)>> >>, <<>>,
             <<CaptureTag(<<TagFeedback(0, FALSE, 0, 0, 0, 0)>>),
               CaptureStr(0)>>),
        Rule(Regex(TRUE, <<Lit(35), Grp(TagName), Lit(44), Grp(<<Digits>>)>>, TRUE),
             << <<U64(0), U64(5)>> >>, <<>>,
             <<CaptureTag(<<TagFeedback(0, FALSE, 0, 0, 1, 0)>>),
               CaptureNum(10, <<NumFeedback(FALSE, 0, 0, 1, TRUE, -1, FALSE)>>)>>),
        Rule(Regex(TRUE, <<Lit(42), Grp(<<Digits>>)>>, TRUE),
             << <<U64(5), U64(6)>> >>, <<>>,
             <<CaptureNum(10, <<NumFeedback(FALSE, 0, 0, 0, TRUE, -1, FALSE)>>)>>)
     >>]

Configs == <<ConfigScenario, ConfigTags, ConfigEmit, ConfigMixed>>

\* The tokens the input is drawn from, per configuration.
TokensScenario ==
    { <<>>,                 \* an empty token
      <<43>>,               \* +
      <<58, 102>>,          \* :f
      <<64, 43>>,           \* @+
      <<64, 102>>,          \* @f
      <<37, 102>>,          \* %f
      <<55>>,               \* 7
      <<63>> }              \* ?

TokensTags ==
    { <<58, 102>>,          \* :f
      <<58, 43>>,           \* :+
      <<58, 43, 43>>,       \* :++
      <<64, 102>>,          \* @f
      <<64, 43>>,           \* @+
      <<45, 49>>,           \* -1
      <<120, 55>>,          \* x7
      <<55, 58, 102>> }     \* 7:f

TokensEmit ==
    { <<39, 97, 61, 55>>,       \* 'a=7
      <<39, 97, 61, 122>>,      \* 'a=z
      <<42, 51, 44, 49>>,       \* *3,1
      <<42, 48, 44, 49>>,       \* *0,1
      <<42, 50, 44, 122>>,      \* *2,z
      <<33, 51>>,               \* !3
      <<58, 45>>,               \* :-
      <<64, 45>> }              \* @-

TokensMixed ==
    { <<58, 45>>,               \* :-
      <<58, 102>>,              \* :f
      <<64, 45>>,               \* @-
      <<64, 102>>,              \* @f
      <<36, 102, 61, 97>>,      \* $f=a
      <<35, 102, 44, 49>>,      \* #f,1
      <<35, 102, 44, 51>>,      \* #f,3
      <<42, 50>> }              \* *2

Tokens == <<TokensScenario, TokensTags, TokensEmit, TokensMixed>>

(***************************************************************************)
(* What the two regex searches of parse_segment give for every token of    *)
(* the input alphabet, tabulated once per configuration.                   *)
(***************************************************************************)
RECURSIVE FirstRule(_, _, _)
\* the 1-based index of the first rule from k on whose regex matches, or 0
FirstRule(rules, tok, k) ==
    IF k > Len(rules) THEN 0
    ELSE IF Captures(rules[k].regex, tok).ok THEN k
    ELSE FirstRule(rules, tok, k + 1)

\* attempt_tag_create: tag_create.regex.captures(segment)
TagCreateMatch ==
    [c \in 1..Len(Configs) |->
        [tok \in Tokens[c] |-> Captures(Configs[c].tag_create, tok)]]

\* attempt_rules: the first rule whose regex.captures(segment) is Some, with
\* its captures (rule 0: no rule matches)
RuleMatch ==
    [c \in 1..Len(Configs) |->
        [tok \in Tokens[c] |->
            LET k == FirstRule(Configs[c].rules, tok, 1)
            IN [rule |-> k,
                caps |-> IF k = 0 THEN <<>>
                         ELSE Captures(Configs[c].rules[k].regex, tok).caps]]]

(***************************************************************************)
(* Parser::new                                                             *)
(***************************************************************************)
Cfg == Configs[config]

\* Positions with the length of the first segment only
PositionsFirstOnly(segs) == <<Len(segs[1])>>

\* the per-segment length vector recorded by a tag
Positions(segs) == [i \in 1..Len(segs) |-> Len(segs[i])]

AllChars(s, c) == \A i \in 1..Len(s) : s[i] = c

Copies(b, n) == [i \in 1..n |-> b]

(***************************************************************************)
(* Parser::attempt_tag_create, for the captured name s.                    *)
(***************************************************************************)
\* InsertTag as tags.insert(s, positions): an occupied entry is overwritten
InsertTagOverwrite(tagmap, s, positions) ==
    [tags |-> [n \in DOMAIN tagmap \cup {s} |->
                  IF n = s THEN positions ELSE tagmap[n]],
     err |-> "none"]

\* tags.entry(s): Occupied panics, Vacant inserts the position vector
InsertTag(tagmap, s, positions) ==
    IF s \in DOMAIN tagmap
    THEN [tags |-> tagmap, err |-> "DuplicateTag"]
    ELSE [tags |-> [n \in DOMAIN tagmap \cup {s} |->
                       IF n = s THEN positions ELSE tagmap[n]],
          err |-> "none"]

CreateTag(s, segs, tagmap, plus, minus) ==
    LET entry == [len |-> Len(s), positions |-> Positions(segs)] IN
    IF AllChars(s, 43)
    THEN [tags |-> tagmap, plus_tags |-> Append(plus, entry),
          minus_tags |-> minus, err |-> "none"]
    ELSE IF AllChars(s, 45)
    THEN [tags |-> tagmap, plus_tags |-> plus,
          minus_tags |-> Append(minus, entry), err |-> "none"]
    ELSE LET ins == InsertTag(tagmap, s, Positions(segs))
         IN [tags |-> ins.tags, plus_tags |-> plus, minus_tags |-> minus,
             err |-> ins.err]

(***************************************************************************)
(* Parser::attempt_rules: the firing of a matched rule.  A firing state    *)
(* st holds the segments, the local copy segvals of the rule's template,   *)
(* the replacements and err, the panic that ended the firing ("none" while *)
(* it runs).  A panic leaves the state as it was when it was raised.       *)
(***************************************************************************)
RECURSIVE ApplySelfReferences(_, _, _, _)
\* self_references k.. applied to segvals
ApplySelfReferences(st, srs, k, oc) ==
    IF k > Len(srs) THEN st
    ELSE LET sr == srs[k]
             old == st.segvals[sr.add_segment + 1][sr.add_index + 1]
             add == shift_left_or_right(
                        U64(Len(st.segments[sr.from_segment + 1])), sr.shift)
         IN IF oc /\ AddOverflows(old, add)
            THEN [st EXCEPT !.err = "ArithmeticOverflow"]
            ELSE ApplySelfReferences(
                     [st EXCEPT !.segvals[sr.add_segment + 1][sr.add_index + 1] =
                                    WrappingAdd(old, add)],
                     srs, k + 1, oc)

\* the Replacement a Tag capture pushes for one feedback
NewReplacement(segs, feedback, cap_string, ln) ==
    [line |-> ln,
     shift |-> feedback.shift,
     add_segment |-> feedback.add_segment,
     index |-> Len(segs[feedback.add_segment + 1]) + feedback.add_index,
     tag |-> cap_string,
     pos_segment |-> feedback.from_segment,
     pos_offset |-> IF feedback.relative
                    THEN feedback.offset - Len(segs[feedback.from_segment + 1])
                    ELSE feedback.offset]

RECURSIVE TagFeedbacks(_, _, _, _, _)
\* Capture::Tag, feedbacks k..
TagFeedbacks(st, feedbacks, k, cap_string, ln) ==
    IF k > Len(feedbacks) THEN st
    ELSE TagFeedbacks(
             [st EXCEPT !.replacements =
                 Append(@, NewReplacement(st.segments, feedbacks[k], cap_string, ln))],
             feedbacks, k + 1, cap_string, ln)

\* Capture::Str: every character of the capture is pushed to the segment
StrCapture(st, add_segment, cap_string) ==
    [st EXCEPT !.segments[add_segment + 1] =
        @ \o [i \in 1..Len(cap_string) |-> U64(cap_string[i])]]

\* segvals[segment].pop()
PopTemplate(st, segment) ==
    [st EXCEPT !.segvals[segment + 1] =
        IF Len(@) = 0 THEN @ ELSE SubSeq(@, 1, Len(@) - 1)]

\* a fill feedback: the base value is repeated in the segment itself
Fill(st, feedback, shiftval) ==
    IF feedback.index >= Len(st.segvals[feedback.segment + 1])
    THEN [st EXCEPT !.err = "IndexOutOfBounds"]
    ELSE LET baseval == st.segvals[feedback.segment + 1][feedback.index + 1]
             fill_amount == U64AsIsize(shiftval) + feedback.fill_offset
             have == Len(st.segments[feedback.segment + 1])
             count == IF feedback.align
                      THEN (IF have < fill_amount THEN fill_amount - have ELSE 0)
                      ELSE fill_amount
         IN IF fill_amount < 0
            THEN [st EXCEPT !.err = "NegativeFill"]
            ELSE PopTemplate(
                     [st EXCEPT !.segments[feedback.segment + 1] =
                                    @ \o Copies(baseval, count)],
                     feedback.segment)

\* a feedback that adds the value to a word of the local template
AddToTemplate(st, feedback, shiftval, oc) ==
    IF feedback.index >= Len(st.segvals[feedback.segment + 1])
    THEN [st EXCEPT !.err = "IndexOutOfBounds"]
    ELSE LET old == st.segvals[feedback.segment + 1][feedback.index + 1]
         IN IF oc /\ AddOverflows(old, shiftval)
            THEN [st EXCEPT !.err = "ArithmeticOverflow"]
            ELSE [st EXCEPT !.segvals[feedback.segment + 1][feedback.index + 1] =
                                WrappingAdd(old, shiftval)]

RECURSIVE NumFeedbacks(_, _, _, _, _)
\* Capture::Num, feedbacks k.. for the parsed value val
NumFeedbacks(st, feedbacks, k, val, oc) ==
    IF k > Len(feedbacks) \/ st.err /= "none" THEN st
    ELSE LET feedback == feedbacks[k]
             shifted == shift_left_or_right(val, feedback.shift)
             negOverflows == feedback.negate
                             /\ AddOverflows(Not64(shifted), U64(1))
             shiftval == IF feedback.negate
                         THEN WrappingAdd(Not64(shifted), U64(1))
                         ELSE shifted
         IN IF oc /\ negOverflows
            THEN [st EXCEPT !.err = "ArithmeticOverflow"]
            ELSE NumFeedbacks(
                     IF feedback.fill
                     THEN Fill(st, feedback, shiftval)
                     ELSE AddToTemplate(st, feedback, shiftval, oc),
                     feedbacks, k + 1, val, oc)

\* Capture::Num: the capture is parsed, then fed back
NumCapture(st, capture, cap_string, oc) ==
    LET pval == from_str_radix(cap_string, capture.base)
    IN IF ~pval.ok
       THEN [st EXCEPT !.err = "NumberParseFailure"]
       ELSE NumFeedbacks(st, capture.feedbacks, 1, IsizeAsU64(pval.val), oc)

RECURSIVE ApplyCaptures(_, _, _, _, _, _)
\* the capture groups g.. of the rule, in order
ApplyCaptures(st, captures, caps, g, ln, oc) ==
    IF g > Len(captures) \/ st.err /= "none" THEN st
    ELSE LET capture == captures[g]
             cap_string == caps[g]
         IN ApplyCaptures(
                CASE capture.kind = "Tag" ->
                       TagFeedbacks(st, capture.feedbacks, 1, cap_string, ln)
                  [] capture.kind = "Str" ->
                       StrCapture(st, capture.add_segment, cap_string)
                  [] capture.kind = "Num" ->
                       NumCapture(st, capture, cap_string, oc),
                captures, caps, g + 1, ln, oc)

\* Commit with the segment assigned instead of appended to
CommitReplace(st) ==
    [st EXCEPT !.segments =
        [i \in 1..Len(st.segments) |-> st.segvals[i]]]

\* the local template is appended to the segments
Commit(st) ==
    [st EXCEPT !.segments =
        [i \in 1..Len(st.segments) |-> st.segments[i] \o st.segvals[i]]]

\* the whole firing of rule on the captures caps
FireRule(rule, caps, segs, repls, ln, oc) ==
    LET st0 == [segments |-> segs, segvals |-> rule.segment_values,
                replacements |-> repls, err |-> "none"]
        st1 == ApplySelfReferences(st0, rule.self_references, 1, oc)
        st2 == IF st1.err /= "none" THEN st1
               ELSE ApplyCaptures(st1, rule.captures, caps, 1, ln, oc)
    IN IF st2.err /= "none" THEN st2 ELSE Commit(st2)


(***************************************************************************)
(* Parser::link.  A link state st holds the segments and err.              *)
(***************************************************************************)
\* the value link adds for replacement r resolved to the position vector
PatchValue(r, positions) ==
    shift_left_or_right(IsizeAsU64(positions[r.pos_segment + 1] + r.pos_offset),
                        r.shift)

\* segments[r.add_segment][r.index] += PatchValue
Patch(st, r, positions, oc) ==
    IF r.index >= Len(st.segments[r.add_segment + 1])
    THEN [st EXCEPT !.err = "IndexOutOfBounds"]
    ELSE LET old == st.segments[r.add_segment + 1][r.index + 1]
             add == PatchValue(r, positions)
         IN IF oc /\ AddOverflows(old, add)
            THEN [st EXCEPT !.err = "ArithmeticOverflow"]
            ELSE [st EXCEPT !.segments[r.add_segment + 1][r.index + 1] =
                                WrappingAdd(old, add)]

\* PlusQualifies with the comparison strict: a tag recorded at the index of
\* the reference itself no longer counts as lying ahead of it
PlusQualifiesStrict(e, r) ==
    e.len = Len(r.tag) /\ e.positions[r.add_segment + 1] > r.index

\* whether the plus_tags entry e qualifies for replacement r
PlusQualifies(e, r) ==
    e.len = Len(r.tag) /\ e.positions[r.add_segment + 1] >= r.index

\* whether the minus_tags entry e qualifies for replacement r
MinusQualifies(e, r) ==
    e.len = Len(r.tag) /\ e.positions[r.add_segment + 1] < r.index

RECURSIVE FindPlus(_, _, _)
\* the index of the first qualifying entry of plus from k on, or 0
FindPlus(plus, r, k) ==
    IF k > Len(plus) THEN 0
    ELSE IF PlusQualifies(plus[k], r) THEN k
    ELSE FindPlus(plus, r, k + 1)

RECURSIVE FindMinus(_, _, _)
\* the index of the last qualifying entry of minus from k down, or 0
FindMinus(minus, r, k) ==
    IF k = 0 THEN 0
    ELSE IF MinusQualifies(minus[k], r) THEN k
    ELSE FindMinus(minus, r, k - 1)

RECURSIVE LinkFrom(_, _, _, _, _, _, _)
\* the 'outer loop of link from replacement i on; after an all-'+' or all-'-'
\* replacement is patched, break 'outer leaves the loop over the replacements
LinkFrom(st, repls, i, tagmap, plus, minus, oc) ==
    IF i > Len(repls) \/ st.err /= "none" THEN st
    ELSE LET r == repls[i] IN
         IF AllChars(r.tag, 43)
         THEN LET k == FindPlus(plus, r, 1) IN
              IF k = 0 THEN [st EXCEPT !.err = "UndefinedTag"]
              ELSE Patch(st, r, plus[k].positions, oc)
         ELSE IF AllChars(r.tag, 45)
         THEN LET k == FindMinus(minus, r, Len(minus)) IN
              IF k = 0 THEN [st EXCEPT !.err = "UndefinedTag"]
              ELSE Patch(st, r, minus[k].positions, oc)
         ELSE IF r.tag \notin DOMAIN tagmap
              THEN [st EXCEPT !.err = "UndefinedTag"]
              ELSE LinkFrom(Patch(st, r, tagmap[r.tag], oc),
                            repls, i + 1, tagmap, plus, minus, oc)

LinkResult(segs, repls, tagmap, plus, minus, oc) ==
    LinkFrom([segments |-> segs, err |-> "none"], repls, 1, tagmap, plus, minus, oc)

(***************************************************************************)
(* Parser::output                                                          *)
(***************************************************************************)
\* byteorder's LittleEndian::write_u64 and BigEndian::write_u64
LittleEndianBytes(val) ==
    <<val[8], val[7], val[6], val[5], val[4], val[3], val[2], val[1]>>
BigEndianBytes(val) == val

\* format!("{:02X}", b) as code points
HexDigit(n) == IF n < 10 THEN 48 + n ELSE 55 + n
Hex02X(b) == <<HexDigit(b \div 16), HexDigit(b % 16)>>

RECURSIVE Flatten(_)
Flatten(seqs) ==
    IF Len(seqs) = 0 THEN <<>> ELSE Head(seqs) \o Flatten(Tail(seqs))

\* the bytes one word contributes to the sink
WordBytes(format, width, val) ==
    CASE format = "LittleEndian" -> SubSeq(LittleEndianBytes(val), 1, width)
      [] format = "BigEndian" -> SubSeq(BigEndianBytes(val), 1, width)
      [] format = "HexList" ->
           Flatten([i \in 1..width |->
                       Hex02X(BigEndianBytes(val)[8 - width + i])]) \o <<10>>

\* everything output writes for a segment of the given width
OutputBytes(format, width, words) ==
    Flatten([i \in 1..Len(words) |-> WordBytes(format, width, words[i])])

(***************************************************************************)
(* The parser as a state machine: one token per input line, then link.     *)
(***************************************************************************)
\* The configurations and builds a run starts from.  Only under ConfigTags
\* can a sum exceed 2^64 - 1, so only there do the two builds differ.
Builds == {<<1, FALSE>>, <<2, FALSE>>, <<2, TRUE>>, <<3, FALSE>>, <<4, FALSE>>}

Init ==
    /\ \E b \in Builds : config = b[1] /\ overflow_checks = b[2]
    /\ segments = [i \in 1..Len(Configs[config].segment_widths) |-> <<>>]
    /\ tags = <<>>
    /\ plus_tags = <<>>
    /\ minus_tags = <<>>
    /\ replacements = <<>>
    /\ line = 0
    /\ input = <<>>
    /\ fired = "none"
    /\ rule_index = -1
    /\ status = "parsing"
    /\ err = "none"
    /\ out_format = "none"
    /\ out_width = 1
    /\ out_words = <<>>
    /\ out_bytes = <<>>

\* parse hands the next token to parse_segment
Dispatch(tok) ==
    /\ status = "parsing"
    /\ line < MaxTokens
    /\ line' = line + 1
    /\ input' = Append(input, tok)
    /\ UNCHANGED <<config, overflow_checks>>
    /\ UNCHANGED output_vars

\* parse_segment: an empty token is skipped
SkipEmpty(tok) ==
    /\ Dispatch(tok)
    /\ Len(tok) = 0
    /\ fired' = "empty"
    /\ rule_index' = -1
    /\ UNCHANGED <<segments, tags, plus_tags, minus_tags, replacements, status, err>>

\* attempt_tag_create, when the tag_create regex matches
TagCreate(tok) ==
    /\ Dispatch(tok)
    /\ Len(tok) > 0
    /\ TagCreateMatch[config][tok].ok
    /\ LET st == CreateTag(TagCreateMatch[config][tok].caps[1], segments,
                           tags, plus_tags, minus_tags)
       IN /\ tags' = st.tags
          /\ plus_tags' = st.plus_tags
          /\ minus_tags' = st.minus_tags
          /\ err' = st.err
          /\ status' = IF st.err = "none" THEN "parsing" ELSE "fatal"
    /\ fired' = "tag"
    /\ rule_index' = -1
    /\ UNCHANGED <<segments, replacements>>

\* attempt_rules, when tag creation did not match and some rule does
RuleFire(tok) ==
    /\ Dispatch(tok)
    /\ Len(tok) > 0
    /\ ~TagCreateMatch[config][tok].ok
    /\ RuleMatch[config][tok].rule /= 0
    /\ LET k == RuleMatch[config][tok].rule
           rule == Cfg.rules[k]
           caps == RuleMatch[config][tok].caps
           st == FireRule(rule, caps, segments, replacements, line + 1,
                          overflow_checks)
       IN /\ fired' = "rule"
          /\ rule_index' = k - 1
          /\ segments' = st.segments
          /\ replacements' = st.replacements
          /\ err' = st.err
          /\ status' = IF st.err = "none" THEN "parsing" ELSE "fatal"
          /\ UNCHANGED <<tags, plus_tags, minus_tags>>

\* parse_segment, when nothing matches
Unrecognized(tok) ==
    /\ Dispatch(tok)
    /\ Len(tok) > 0
    /\ ~TagCreateMatch[config][tok].ok
    /\ RuleMatch[config][tok].rule = 0
    /\ fired' = "none"
    /\ rule_index' = -1
    /\ status' = "fatal"
    /\ err' = "UnrecognizedToken"
    /\ UNCHANGED <<segments, tags, plus_tags, minus_tags, replacements>>

\* main: link, once, after the last parse
Link ==
    /\ status = "parsing"
    /\ LET st == LinkResult(segments, replacements, tags, plus_tags, minus_tags,
                            overflow_checks)
       IN /\ segments' = st.segments
          /\ err' = st.err
          /\ status' = IF st.err = "none" THEN "linked" ELSE "fatal"
    /\ fired' = "link"
    /\ rule_index' = -1
    /\ UNCHANGED <<config, overflow_checks, tags, plus_tags, minus_tags,
                   replacements, line, input>>
    /\ UNCHANGED output_vars

Next ==
    \/ \E tok \in Tokens[config] : SkipEmpty(tok)
    \/ \E tok \in Tokens[config] : TagCreate(tok)
    \/ \E tok \in Tokens[config] : RuleFire(tok)
    \/ \E tok \in Tokens[config] : Unrecognized(tok)
    \/ Link

Spec == Init /\ [][Next]_vars

(***************************************************************************)
(* The serializer alone: output applied to a segment of any width 1..8.    *)
(***************************************************************************)
\* words whose bytes tell their positions apart
SampleWords ==
    { <<1, 2, 3, 4, 5, 6, 7, 8>>,
      <<0, 0, 0, 0, 0, 0, 0, 171>>,
      <<255, 0, 0, 0, 0, 0, 1, 0>> }

RECURSIVE SeqsUpTo(_, _)
\* the sequences over S of length at most n
SeqsUpTo(S, n) ==
    IF n = 0 THEN {<<>>}
    ELSE LET shorter == SeqsUpTo(S, n - 1)
         IN shorter \cup {Append(q, x) : q \in shorter, x \in S}

InitOut ==
    /\ config = 1
    /\ overflow_checks = FALSE
    /\ segments = [i \in 1..Len(Configs[config].segment_widths) |-> <<>>]
    /\ tags = <<>>
    /\ plus_tags = <<>>
    /\ minus_tags = <<>>
    /\ replacements = <<>>
    /\ line = 0
    /\ input = <<>>
    /\ fired = "none"
    /\ rule_index = -1
    /\ status = "linked"
    /\ err = "none"
    /\ out_format = "none"
    /\ out_width \in 1..8
    /\ out_words \in SeqsUpTo(SampleWords, MaxOutWords)
    /\ out_bytes = <<>>

\* output(format, segment, w) on a fresh sink
Output(format) ==
    /\ status = "linked"
    /\ out_format' = format
    /\ out_bytes' = OutputBytes(format, out_width, out_words)
    /\ UNCHANGED <<out_width, out_words>>
    /\ UNCHANGED parser_vars

OutputLittleEndian == Output("LittleEndian")
OutputBigEndian == Output("BigEndian")
OutputHexList == Output("HexList")

NextOut == OutputLittleEndian \/ OutputBigEndian \/ OutputHexList

SpecOut == InitOut /\ [][NextOut]_vars

(***************************************************************************)
(* Vocabulary of the properties.                                           *)
(***************************************************************************)
\* the token of the last parse_segment call
LastToken == input[Len(input)]

\* this step is a call of parse_segment in which a rule fired
RuleFired == fired' = "rule" /\ line' = line + 1

\* this step is a call of parse_segment in which the tag_create regex matched
TagMatched == fired' = "tag" /\ line' = line + 1

\* this step is a call of link that returned normally
LinkReturned == status = "parsing" /\ status' = "linked"

IsNamedTag(r) == ~AllChars(r.tag, 43) /\ ~AllChars(r.tag, 45)

\* replacement r names a tag that has a matching entry
Resolvable(r) ==
    IF AllChars(r.tag, 43) THEN \E k \in 1..Len(plus_tags) : PlusQualifies(plus_tags[k], r)
    ELSE IF AllChars(r.tag, 45)
    THEN \E k \in 1..Len(minus_tags) : MinusQualifies(minus_tags[k], r)
    ELSE r.tag \in DOMAIN tags

\* the position vector of the entry replacement r resolves to
ResolvedPositions(r) ==
    IF AllChars(r.tag, 43) THEN plus_tags[FindPlus(plus_tags, r, 1)].positions
    ELSE IF AllChars(r.tag, 45)
    THEN minus_tags[FindMinus(minus_tags, r, Len(minus_tags))].positions
    ELSE tags[r.tag]

RECURSIVE AllPatched(_, _, _)
\* segs with every replacement from i on applied once, in order
AllPatched(segs, repls, i) ==
    IF i > Len(repls) THEN segs
    ELSE LET r == repls[i] IN
         AllPatched(
             [segs EXCEPT ![r.add_segment + 1][r.index + 1] =
                 WrappingAdd(@, PatchValue(r, ResolvedPositions(r)))],
             repls, i + 1)

IsPrefix(s, t) == Len(s) <= Len(t) /\ SubSeq(t, 1, Len(s)) = s

\* some match of the pattern covers the whole token
WholeTokenMatch(pat, tok) ==
    Captures([pat EXCEPT !.anchS = TRUE, !.anchE = TRUE], tok).ok

(***************************************************************************)
(* C1.  After link returns normally, every replacement of the list (all    *)
(* of them resolvable and in bounds) has been applied exactly once, in     *)
(* insertion order, those after a '+' or '-' replacement included.         *)
(* Violated: break 'outer ends link after the first '+' or '-'             *)
(* replacement, so the replacements after it are never applied.            *)
(***************************************************************************)
C1_EveryReplacementApplied ==
    [][(/\ LinkReturned
        /\ \A i \in 1..Len(replacements) :
              /\ Resolvable(replacements[i])
              /\ replacements[i].index
                    < Len(segments[replacements[i].add_segment + 1]))
       => segments' = AllPatched(segments, replacements, 1)]_vars

(***************************************************************************)
(* C2.  In BigEndian format output writes, for every word, the bytes       *)
(* [8-w..8] of its 8-byte big-endian encoding (the least-significant w     *)
(* bytes), the bytes HexList prints in hex.                                *)
(* Violated: the BigEndian arm writes bytes [0..w], the most significant.  *)
(***************************************************************************)
LowBytes(width, words) ==
    Flatten([i \in 1..Len(words) |->
                SubSeq(BigEndianBytes(words[i]), 9 - width, 8)])

RECURSIVE HexLines(_, _)
\* the bytes, width per line, as uppercase hex with a newline per line
HexLines(width, bytes) ==
    IF Len(bytes) = 0 THEN <<>>
    ELSE Flatten([i \in 1..width |-> Hex02X(bytes[i])]) \o <<10>>
         \o HexLines(width, SubSeq(bytes, width + 1, Len(bytes)))

C2_BigEndianLowBytes ==
    /\ out_format = "BigEndian" => out_bytes = LowBytes(out_width, out_words)
    /\ out_format = "HexList"
          => out_bytes = HexLines(out_width, LowBytes(out_width, out_words))

(***************************************************************************)
(* C3.  A token creates a tag, or fires a rule, only if the regex matches  *)
(* the whole token.                                                        *)
(* Violated: captures() searches the token, so a pattern without anchors   *)
(* is accepted on a proper substring.                                      *)
(***************************************************************************)
C3_OnlyWholeTokenMatches ==
    /\ fired = "tag" => WholeTokenMatch(Cfg.tag_create, LastToken)
    /\ fired = "rule" => WholeTokenMatch(Cfg.rules[rule_index + 1].regex, LastToken)

(***************************************************************************)
(* C4.  Commit atomicity: a rule firing that ends in a fatal error other   *)
(* than a negative fill count has appended no word to any segment; a       *)
(* firing that succeeds has appended its local template (all the words of  *)
(* the rule's template but the slots its fills consumed).                  *)
(* Violated: a String capture and a fill push to the segments at once, so  *)
(* a number-capture parse failure later in the rule leaves them pushed.    *)
(***************************************************************************)
\* the number of fill feedbacks of the rule that target segment i (0-based)
FillsOn(rule, i) ==
    Cardinality({gk \in (1..Len(rule.captures)) \X (1..2) :
        /\ rule.captures[gk[1]].kind = "Num"
        /\ gk[2] <= Len(rule.captures[gk[1]].feedbacks)
        /\ rule.captures[gk[1]].feedbacks[gk[2]].fill
        /\ rule.captures[gk[1]].feedbacks[gk[2]].segment = i})

C4_CommitAtomicity ==
    [][RuleFired =>
         IF status' = "fatal"
         THEN err' = "NegativeFill" \/ segments' = segments
         ELSE \A i \in 1..Len(segments) :
                 /\ IsPrefix(segments[i], segments'[i])
                 /\ Len(segments'[i]) - Len(segments[i])
                       >= Len(Cfg.rules[rule_index' + 1].segment_values[i])
                          - FillsOn(Cfg.rules[rule_index' + 1], i - 1)]_vars

(***************************************************************************)
(* C5.  The plus-tag scenario: one segment, tokens + @+ +, then link.      *)
(***************************************************************************)
PlusScenarioLinked ==
    /\ config = 1
    /\ input = << <<43>>, <<64, 43>>, <<43>> >>
    /\ status = "linked"

\* C5 as stated: link selects the second '+' tag for the @+ reference and
\* adds the patch value 1 to its word.
\* Violated: the replacement's index is 0, the first tag's position 0 is
\* >= 0, so the first tag is selected and 0 is added.
C5_PlusScenarioSelectsSecond ==
    PlusScenarioLinked =>
        /\ FindPlus(plus_tags, replacements[1], 1) = 2
        /\ segments = << <<U64(1)>> >>

\* C5 as amended: both '+' tags are recorded at positions [0] and [1], the
\* replacement of @+ has index 0, link selects the first '+' tag (its
\* position 0 is >= 0) and adds the patch value 0 to the word.
C5_PlusScenarioSelectsFirst ==
    PlusScenarioLinked =>
        /\ plus_tags = <<[len |-> 1, positions |-> <<0>>],
                         [len |-> 1, positions |-> <<1>>]>>
        /\ Len(replacements) = 1
        /\ replacements[1].index = 0
        /\ FindPlus(plus_tags, replacements[1], 1) = 1
        /\ segments = << <<U64(0)>> >>

C5_Witness == PlusScenarioLinked

(***************************************************************************)
(* C6.  UndefinedTag is always detected: if any replacement of the list    *)
(* names a tag with no matching entry, link does not return normally.      *)
(* Violated: link returns at the first '+' or '-' replacement it patches   *)
(* and never looks at the replacements after it.                           *)
(***************************************************************************)
C6_UndefinedTagIsFatal ==
    status = "linked" =>
        \A i \in 1..Len(replacements) : Resolvable(replacements[i])

(***************************************************************************)
(* C7.  For a reference to a named tag, link adds                          *)
(* shift((T + pos_offset) mod 2^64, shift) to the reference word, T the    *)
(* tag's recorded length of from_segment, pos_offset = offset - L when the *)
(* feedback is relative (L the length of from_segment when the rule fired) *)
(* and offset otherwise; 7 %f :f patches 1 and %f 7 :f patches 2.          *)
(* Violated: a named reference that follows a '+' or '-' reference in the  *)
(* list gets nothing added (see C1).                                       *)
(***************************************************************************)
\* the feedbacks of the rule's Tag captures, in the order they are applied
TagFeedbacksOf(rule) ==
    Flatten([g \in 1..Len(rule.captures) |->
                IF rule.captures[g].kind = "Tag"
                THEN rule.captures[g].feedbacks ELSE <<>>])

C7_NamedTagPatch ==
    [][/\ (RuleFired /\ status' = "parsing") =>
            LET fbs == TagFeedbacksOf(Cfg.rules[rule_index' + 1]) IN
            /\ Len(replacements') = Len(replacements) + Len(fbs)
            /\ \A j \in 1..Len(fbs) :
                  LET r == replacements'[Len(replacements) + j]
                      L == Len(segments[fbs[j].from_segment + 1])
                  IN /\ r.pos_segment = fbs[j].from_segment
                     /\ r.shift = fbs[j].shift
                     /\ r.pos_offset = IF fbs[j].relative
                                       THEN fbs[j].offset - L
                                       ELSE fbs[j].offset
       /\ LinkReturned =>
            \A i \in 1..Len(replacements) :
               LET r == replacements[i] IN
               (IsNamedTag(r) /\ r.tag \in DOMAIN tags) =>
                  /\ r.index < Len(segments[r.add_segment + 1])
                  /\ segments'[r.add_segment + 1][r.index + 1] =
                        WrappingAdd(
                            segments[r.add_segment + 1][r.index + 1],
                            shift_left_or_right(
                                IsizeAsU64(tags[r.tag][r.pos_segment + 1]
                                           + r.pos_offset),
                                r.shift))
       /\ (/\ config' = 1 /\ status' = "linked"
           /\ input' = << <<55>>, <<37, 102>>, <<58, 102>> >>)
             => segments' = << <<U64(7), U64(1)>> >>
       /\ (/\ config' = 1 /\ status' = "linked"
           /\ input' = << <<37, 102>>, <<55>>, <<58, 102>> >>)
             => segments' = << <<U64(2), U64(7)>> >>]_vars

(***************************************************************************)
(* C8.  Position monotonicity: over every step (a token dispatch or the    *)
(* final link) the length of no segment decreases.                         *)
(***************************************************************************)
C8_PositionMonotonicity ==
    [][/\ Len(segments') = Len(segments)
       /\ \A i \in 1..Len(segments) : Len(segments'[i]) >= Len(segments[i])]_vars

\* a run in which strings were pushed, fills made and the link was done
C8_Witness ==
    /\ status = "linked"
    /\ Len(replacements) > 0
    /\ \E i \in 1..Len(segments) : Len(segments[i]) >= 3

(***************************************************************************)
(* C9.  Shape: the number of segments is S = len(config.segment_widths)    *)
(* and every position vector in tags, plus_tags and minus_tags has         *)
(* length S.                                                               *)
(***************************************************************************)
C9_Shape ==
    /\ Len(segments) = Len(Cfg.segment_widths)
    /\ \A n \in DOMAIN tags : Len(tags[n]) = Len(Cfg.segment_widths)
    /\ \A k \in 1..Len(plus_tags) :
          Len(plus_tags[k].positions) = Len(Cfg.segment_widths)
    /\ \A k \in 1..Len(minus_tags) :
          Len(minus_tags[k].positions) = Len(Cfg.segment_widths)

\* two segments, a named tag and a '+' tag recorded after words were emitted
C9_Witness ==
    /\ status = "parsing"
    /\ Len(Cfg.segment_widths) = 2
    /\ DOMAIN tags /= {}
    /\ Len(plus_tags) > 0
    /\ \E i \in 1..Len(segments) : Len(segments[i]) > 0

(***************************************************************************)
(* C10.  Named tags are unique: creating a named tag whose name is already *)
(* in tags is fatal and no step ever changes a recorded position vector;   *)
(* creating an all-'+' or all-'-' name never fails and appends one new     *)
(* entry to plus_tags or minus_tags, whatever entries are there already.   *)
(***************************************************************************)
C10_NamedTagsUnique ==
    [][/\ \A n \in DOMAIN tags : n \in DOMAIN tags' /\ tags'[n] = tags[n]
       /\ TagMatched =>
            LET s == TagCreateMatch[config][input'[Len(input')]].caps[1]
                entry == [len |-> Len(s),
                          positions |-> [i \in 1..Len(segments) |->
                                            Len(segments[i])]]
            IN IF AllChars(s, 43)
               THEN /\ status' = "parsing"
                    /\ plus_tags' = Append(plus_tags, entry)
                    /\ minus_tags' = minus_tags /\ tags' = tags
               ELSE IF AllChars(s, 45)
               THEN /\ status' = "parsing"
                    /\ minus_tags' = Append(minus_tags, entry)
                    /\ plus_tags' = plus_tags /\ tags' = tags
               ELSE /\ plus_tags' = plus_tags /\ minus_tags' = minus_tags
                    /\ IF s \in DOMAIN tags
                       THEN /\ status' = "fatal" /\ err' = "DuplicateTag"
                            /\ tags' = tags
                       ELSE /\ status' = "parsing"
                            /\ DOMAIN tags' = DOMAIN tags \cup {s}
                            /\ tags'[s] = entry.positions]_vars

\* a named tag was created twice after two '+' tags of the same run length
C10_Witness ==
    /\ err = "DuplicateTag"
    /\ Len(plus_tags) >= 2
    /\ plus_tags[1].len = plus_tags[2].len


(***************************************************************************)
(* C11.  For every replacement a Tag capture creates in a rule firing, the *)
(* recorded index len(segments[add_segment]) + add_index is the position   *)
(* the template word local[add_segment][add_index] has in                  *)
(* segments[add_segment] once the rule has committed, and so is in bounds, *)
(* for any combination of captures in the rule, String captures and fills  *)
(* on the same segment included.                                           *)
(* Violated: a String capture or a fill that follows the Tag capture       *)
(* pushes its words to the segment after the index was taken, so the       *)
(* template word lands behind the recorded index; a fill that pops the     *)
(* word leaves the index out of bounds.                                    *)
(***************************************************************************)
\* the number of words of the rule's template for segment i (0-based) that
\* the commit appends: each fill on the segment has popped one
KeptTemplate(rule, i) ==
    IF Len(rule.segment_values[i + 1]) > FillsOn(rule, i)
    THEN Len(rule.segment_values[i + 1]) - FillsOn(rule, i)
    ELSE 0

C11_IndexIsTemplatePosition ==
    [][(RuleFired /\ status' = "parsing") =>
          LET rule == Cfg.rules[rule_index' + 1]
              fbs == TagFeedbacksOf(rule)
          IN \A j \in 1..Len(fbs) :
                LET r == replacements'[Len(replacements) + j]
                    a == fbs[j].add_segment
                IN /\ r.index = Len(segments'[a + 1]) - KeptTemplate(rule, a)
                                   + fbs[j].add_index
                   /\ r.index < Len(segments'[a + 1])]_vars


(***************************************************************************)
(* C12.  For a replacement r whose tag is all '+', link selects the        *)
(* earliest-inserted plus_tags entry whose len is the number of '+' of     *)
(* r.tag and whose positions[r.add_segment] >= r.index, and adds the patch *)
(* value of that entry's positions[r.pos_segment] to the word; entries of  *)
(* another run length or positioned before r.index are never selected, and *)
(* link is fatal if no entry qualifies.                                    *)
(* Violated: after the first '+' or '-' replacement it patches, link       *)
(* leaves the loop over the replacements (see C1), so a later '+'          *)
(* replacement is neither patched nor reported as undefined.               *)
(***************************************************************************)
\* plus_tags[k] has the run length of r.tag and lies at or after r.index
AheadOf(k, r) ==
    /\ plus_tags[k].len = Len(r.tag)
    /\ plus_tags[k].positions[r.add_segment + 1] >= r.index

\* link has added to the word of r the patch value of the position vector
PatchedWith(r, positions) ==
    /\ r.index < Len(segments[r.add_segment + 1])
    /\ segments'[r.add_segment + 1][r.index + 1] =
          WrappingAdd(segments[r.add_segment + 1][r.index + 1],
                      shift_left_or_right(
                          IsizeAsU64(positions[r.pos_segment + 1] + r.pos_offset),
                          r.shift))

C12_PlusSelectsEarliestAhead ==
    [][LinkReturned =>
          \A i \in 1..Len(replacements) :
             LET r == replacements[i] IN
             AllChars(r.tag, 43) =>
                \E k \in 1..Len(plus_tags) :
                   /\ AheadOf(k, r)
                   /\ \A j \in 1..(k - 1) : ~AheadOf(j, r)
                   /\ PatchedWith(r, plus_tags[k].positions)]_vars

(***************************************************************************)
(* C13.  For a replacement r whose tag is all '-', link selects the        *)
(* latest-inserted minus_tags entry whose len is the number of '-' of      *)
(* r.tag and whose positions[r.add_segment] < r.index, and adds the patch  *)
(* value of that entry's positions[r.pos_segment] to the word; link is     *)
(* fatal if no entry qualifies.                                            *)
(* Violated: after the first '+' or '-' replacement it patches, link       *)
(* leaves the loop over the replacements (see C1), so a later '-'          *)
(* replacement is neither patched nor reported as undefined.               *)
(***************************************************************************)
\* minus_tags[k] has the run length of r.tag and lies strictly before r.index
BehindOf(k, r) ==
    /\ minus_tags[k].len = Len(r.tag)
    /\ minus_tags[k].positions[r.add_segment + 1] < r.index

C13_MinusSelectsLatestBehind ==
    [][LinkReturned =>
          \A i \in 1..Len(replacements) :
             LET r == replacements[i] IN
             AllChars(r.tag, 45) =>
                \E k \in 1..Len(minus_tags) :
                   /\ BehindOf(k, r)
                   /\ \A j \in (k + 1)..Len(minus_tags) : ~BehindOf(j, r)
                   /\ PatchedWith(r, minus_tags[k].positions)]_vars


(***************************************************************************)
(* C14.  For a fill feedback f without align, with base                    *)
(* b = local[f.segment][f.index] and count n = (shifted value as signed)   *)
(* + f.fill_offset: the firing is fatal if n < 0; otherwise exactly n      *)
(* copies of b are appended to segments[f.segment] and the template slot   *)
(* f.index is consumed: the commit appends every other template word of    *)
(* the segment and not b again.  Base [5], captured 3, fill_offset -1      *)
(* emits exactly [5,5].                                                    *)
(* Violated: the fill pops the last word of the template, whatever         *)
(* f.index is; when the base is not the last word, the commit appends b    *)
(* once more and drops the last word.                                      *)
(***************************************************************************)
\* the sequence s without its element at the 0-based index i
Without(s, i) == SubSeq(s, 1, i) \o SubSeq(s, i + 2, Len(s))

\* nothing of the rule but one fill writes to segment i (0-based) or to its
\* template
FillOnly(rule, i) ==
    /\ FillsOn(rule, i) = 1
    /\ \A k \in 1..Len(rule.self_references) :
          rule.self_references[k].add_segment /= i
    /\ \A g \in 1..Len(rule.captures) :
          /\ rule.captures[g].kind = "Str" => rule.captures[g].add_segment /= i
          /\ rule.captures[g].kind = "Num" =>
                \A k \in 1..Len(rule.captures[g].feedbacks) :
                   rule.captures[g].feedbacks[k].segment = i
                      => rule.captures[g].feedbacks[k].fill

C14_FillConsumesBase ==
    [][/\ RuleFired =>
          LET rule == Cfg.rules[rule_index' + 1]
              caps == RuleMatch[config][input'[Len(input')]].caps
          IN \A g \in 1..Len(rule.captures) :
                rule.captures[g].kind = "Num" =>
                   \A k \in 1..Len(rule.captures[g].feedbacks) :
                      LET f == rule.captures[g].feedbacks[k]
                          pval == from_str_radix(caps[g], rule.captures[g].base)
                          n == U64AsIsize(shift_left_or_right(
                                   IsizeAsU64(pval.val), f.shift)) + f.fill_offset
                          b == rule.segment_values[f.segment + 1][f.index + 1]
                      IN (/\ f.fill /\ ~f.align /\ ~f.negate
                          /\ FillOnly(rule, f.segment) /\ pval.ok) =>
                            IF n < 0
                            THEN status' = "fatal" /\ err' = "NegativeFill"
                            ELSE status' = "parsing" =>
                                   segments'[f.segment + 1] =
                                      segments[f.segment + 1] \o Copies(b, n)
                                         \o Without(rule.segment_values[f.segment + 1],
                                                    f.index)
       /\ (config' = 3 /\ input' = << <<42, 51, 44, 49>> >>)
             => segments'[1] = <<U64(5), U64(5)>>]_vars

====
